---- MODULE Spec2Model ----
(***************************************************************************)
(* Mark-and-sweep collector of src/mini_garabge_collector.cpp.             *)
(*                                                                         *)
(* Objects are identified by their address.  The collector keeps the set   *)
(* mHeap, the set mRoots and the map mPinned; every object carries the     *)
(* flag mMarked.  Client code constructs and deletes objects, sets the     *)
(* references its markChildren hook follows, registers roots, pins,        *)
(* calls mark() directly and calls collect().  collect() is single         *)
(* threaded; it is modelled loop iteration by loop iteration, and no       *)
(* client operation runs while it is in progress.                          *)
(***************************************************************************)
EXTENDS Integers, Sequences, FiniteSets, TLC

\* Number of distinct addresses an object can be constructed at.
NObj == 3

\* Cap on the pin count of one object (guards pin so the count stays finite).
MaxPin == 2

\* Number of client operations in one run (collect() calls are not counted).
MaxOps == 6

\* mPinned counts are unsigned int, 32 bits wide.  A count is kept as two
\* 16-bit halves <<high, low>> and stands for high * 2^16 + low.
HalfMod == 65536

Obj == 1 .. NObj

\* The past-the-end iterator of a std::set / std::map.
End == 0

VARIABLES
    alive,      \* addresses holding a constructed, not yet deleted Gc_object
    mMarked,    \* Gc_object::mMarked of the object at each address
    children,   \* the objects the markChildren hook of each object marks
    mHeap,      \* garbage_collector::mHeap
    mRoots,     \* garbage_collector::mRoots
    mPinned,    \* garbage_collector::mPinned: a map from keys to counts
    pc,         \* where the program is: idle, inside collect(), or ended
    it,         \* the iterator of the loop collect()/sweep() is running
    erase,      \* sweep()'s local vector of heap entries to erase
    pre,        \* what collect() found on entry (heap, marks, objects, links)
    pins,       \* per object: the pin() calls made on it one at a time
    unpins,     \* per object: the unpin() calls on it that returned
    lastKept,   \* heap objects the last completed cycle kept through a root
    ops,        \* client operations made so far
    hooks,      \* per object: markChildren calls made by the running cycle
    quiet       \* no client operation ran since collect() last returned

vars == <<alive, mMarked, children, mHeap, mRoots, mPinned,
          pc, it, erase, pre, pins, unpins, lastKept, ops, hooks, quiet>>

collector == <<mHeap, mRoots, mPinned>>
cycle == <<it, erase, pre, hooks>>
calls == <<pins, unpins>>

NoPre == [heap |-> {}, marked |-> {}, alive |-> {},
          children |-> [o \in Obj |-> {}]]

NoHooks == [o \in Obj |-> 0]

----------------------------------------------------------------------------
(* Iteration over std::set<Gc_object*> and std::map<Gc_object*, unsigned>: *)
(* both are ordered by address.                                            *)

Min(S) == CHOOSE x \in S : \A y \in S : x <= y

Begin(S) == IF S = {} THEN End ELSE Min(S)

\* ++it that steps over the element after x.
NextItSkip(S, x) == Begin({y \in S : y > x + 1})

NextIt(S, x) == Begin({y \in S : y > x})

PinnedKeys == DOMAIN mPinned

----------------------------------------------------------------------------
(* Gc_object::mark and the markChildren hook.                              *)
(* m is the mMarked flag of every address.  An address that holds no       *)
(* object has no references left to follow; the access itself is           *)
(* undefined and is recorded by leaving m set there (see TouchesDead).     *)

RECURSIVE mark(_, _)
RECURSIVE markEach(_, _)

markChildren(m, o) == markEach(m, children[o])

mark(m, o) ==
    IF ~m[o] THEN markChildren([m EXCEPT ![o] = TRUE], o) ELSE m

markEach(m, S) ==
    IF S = {} THEN m
    ELSE LET c == Min(S) IN markEach(mark(m, c), S \ {c})

\* The markChildren calls that mark(m, o) makes, counted per object: the
\* hook of o runs when mark() finds the bit of o clear, and then the hooks
\* its children's mark() calls run.
RECURSIVE hookRuns(_, _)
RECURSIVE hookRunsEach(_, _)
hookRuns(m, o) ==
    IF ~m[o]
    THEN LET rest == hookRunsEach([m EXCEPT ![o] = TRUE], children[o]) IN
         [x \in Obj |-> IF x = o THEN rest[x] + 1 ELSE rest[x]]
    ELSE NoHooks

hookRunsEach(m, S) ==
    IF S = {} THEN NoHooks
    ELSE LET c == Min(S)
             first == hookRuns(m, c)
             rest == hookRunsEach(mark(m, c), S \ {c})
         IN [x \in Obj |-> first[x] + rest[x]]

\* The traversal dereferenced an address that holds no object.
TouchesDead(m) == \E d \in Obj \ alive : m[d]

\* Flags of the objects that exist (memory of deleted objects holds no flag).
OfLive(m) == [o \in Obj |-> o \in alive /\ m[o]]

----------------------------------------------------------------------------
(* garbage_collector's table operations.                                   *)

addObject(o) == mHeap \cup {o}

removeObject(o) == mHeap \ {o}

\* addRoot that toggles: a second call on a root takes it out again.
addRootToggle(o) == IF o \in mRoots THEN mRoots \ {o} ELSE mRoots \cup {o}

addRoot(o) == mRoots \cup {o}

removeRoot(o) == mRoots \ {o}

\* The unsigned int n, for n < 2^16.
UInt(n) == <<0, n>>

\* ++ and -- of an unsigned int: both wrap around modulo 2^32.
Inc(c) ==
    IF c[2] + 1 < HalfMod THEN <<c[1], c[2] + 1>>
    ELSE <<(c[1] + 1) % HalfMod, 0>>

Dec(c) ==
    IF c[2] > 0 THEN <<c[1], c[2] - 1>>
    ELSE <<(c[1] + HalfMod - 1) % HalfMod, HalfMod - 1>>

\* The largest unsigned int, 2^32 - 1.
MaxUInt == <<HalfMod - 1, HalfMod - 1>>

\* c + d of two unsigned ints, modulo 2^32.
AddU(c, d) ==
    LET lo == c[2] + d[2]
        hi == c[1] + d[1] + (IF lo >= HalfMod THEN 1 ELSE 0)
    IN <<hi % HalfMod, lo % HalfMod>>

\* k calls of pin(o) in a row, k >= 1: the first call on an object that is
\* no key stores 1, every other call increments.
pinTimes(o, k) ==
    IF o \notin DOMAIN mPinned
    THEN [x \in DOMAIN mPinned \cup {o} |->
            IF x = o THEN AddU(UInt(1), Dec(k)) ELSE mPinned[x]]
    ELSE [mPinned EXCEPT ![o] = AddU(@, k)]

pin(o) ==
    IF o \notin DOMAIN mPinned
    THEN [k \in DOMAIN mPinned \cup {o} |->
            IF k = o THEN UInt(1) ELSE mPinned[k]]
    ELSE [mPinned EXCEPT ![o] = Inc(@)]

\* unpin with the entry erased one call early (tests the count before the
\* decrement took effect).
unpinEarly(o) ==
    LET n == Dec(mPinned[o]) IN
    IF n = UInt(0) \/ n = UInt(1)
    THEN [k \in DOMAIN mPinned \ {o} |-> mPinned[k]]
    ELSE [mPinned EXCEPT ![o] = n]

\* unpin after its assertion passed: o is a key.
unpin(o) ==
    LET n == Dec(mPinned[o]) IN
    IF n = UInt(0)
    THEN [k \in DOMAIN mPinned \ {o} |-> mPinned[k]]
    ELSE [mPinned EXCEPT ![o] = n]

live == Cardinality(mHeap)

----------------------------------------------------------------------------
Init ==
    /\ alive = {}
    /\ mMarked = [o \in Obj |-> FALSE]
    /\ children = [o \in Obj |-> {}]
    /\ mHeap = {}
    /\ mRoots = {}
    /\ mPinned = <<>>
    /\ pc = "idle"
    /\ it = End
    /\ erase = <<>>
    /\ pre = NoPre
    /\ pins = [o \in Obj |-> 0]
    /\ unpins = [o \in Obj |-> 0]
    /\ lastKept = {}
    /\ ops = 0
    /\ hooks = NoHooks
    /\ quiet = FALSE

----------------------------------------------------------------------------
(* Client operations.  They run only between collections.                  *)

\* Client code runs, and has operations left in this run.
ClientOp ==
    /\ pc = "idle"
    /\ ops < MaxOps
    /\ ops' = ops + 1
    /\ quiet' = FALSE

\* new Test(): Gc_object::Gc_object() at a free address.
Construct(o) ==
    /\ ClientOp
    /\ o \notin alive
    /\ alive' = alive \cup {o}
    /\ mMarked' = [mMarked EXCEPT ![o] = FALSE]
    /\ children' = [children EXCEPT ![o] = {}]
    /\ mHeap' = addObject(o)
    /\ lastKept' = lastKept \ {o}
    /\ pins' = [pins EXCEPT ![o] = 0]
    /\ unpins' = [unpins EXCEPT ![o] = 0]
    /\ UNCHANGED <<mRoots, mPinned, pc, cycle>>

\* new Test2(*s): Gc_object::Gc_object(Gc_object const&); the derived
\* class's implicit copy constructor copies the reference members.
CopyConstruct(s, o) ==
    /\ ClientOp
    /\ s \in alive
    /\ o \notin alive
    /\ alive' = alive \cup {o}
    /\ mMarked' = [mMarked EXCEPT ![o] = FALSE]
    /\ children' = [children EXCEPT ![o] = children[s]]
    /\ mHeap' = addObject(o)
    /\ lastKept' = lastKept \ {o}
    /\ pins' = [pins EXCEPT ![o] = 0]
    /\ unpins' = [unpins EXCEPT ![o] = 0]
    /\ UNCHANGED <<mRoots, mPinned, pc, cycle>>

\* delete o by client code: Gc_object::~Gc_object() has an empty body.
\* The client deletes only what nothing it holds refers to any more.
Destroy(o) ==
    /\ ClientOp
    /\ o \in alive
    /\ o \notin mRoots
    /\ o \notin PinnedKeys
    /\ \A p \in alive \ {o} : o \notin children[p]
    /\ alive' = alive \ {o}
    /\ mMarked' = [mMarked EXCEPT ![o] = FALSE]
    /\ children' = [children EXCEPT ![o] = {}]
    /\ UNCHANGED <<mHeap, mRoots, mPinned, pc, cycle, calls, lastKept>>

\* Client code stores a reference to c in p (a member such as Test2::mTest).
AddRef(p, c) ==
    /\ ClientOp
    /\ p \in alive
    /\ c \in alive
    /\ c \notin children[p]
    /\ children' = [children EXCEPT ![p] = @ \cup {c}]
    /\ UNCHANGED <<alive, mMarked, collector, pc, cycle, calls, lastKept>>

\* Client code clears a reference of p.
DropRef(p, c) ==
    /\ ClientOp
    /\ p \in alive
    /\ c \in children[p]
    /\ children' = [children EXCEPT ![p] = @ \ {c}]
    /\ UNCHANGED <<alive, mMarked, collector, pc, cycle, calls, lastKept>>

\* o->mark() called by client code, as main() does.
ClientMark(o) ==
    /\ ClientOp
    /\ o \in alive
    /\ LET m == mark(mMarked, o) IN
         \/ /\ mMarked' = OfLive(m)
            /\ pc' = pc
         \/ /\ TouchesDead(m)
            /\ mMarked' = mMarked
            /\ pc' = "crashed"
    /\ UNCHANGED <<alive, children, collector, cycle, calls, lastKept>>

AddRoot(o) ==
    /\ ClientOp
    /\ o \in alive
    /\ mRoots' = addRoot(o)
    /\ UNCHANGED <<alive, mMarked, children, mHeap, mPinned, pc, cycle,
                   calls, lastKept>>

RemoveRoot(o) ==
    /\ ClientOp
    /\ mRoots' = removeRoot(o)
    /\ UNCHANGED <<alive, mMarked, children, mHeap, mPinned, pc, cycle,
                   calls, lastKept>>

Pin(o) ==
    /\ ClientOp
    /\ o \in alive
    /\ pins[o] - unpins[o] < MaxPin
    /\ mPinned' = pin(o)
    /\ pins' = [pins EXCEPT ![o] = @ + 1]
    /\ UNCHANGED <<alive, mMarked, children, mHeap, mRoots, pc, cycle,
                   unpins, lastKept>>

\* Client code pins an object that is no key 2^32 - 1 times in a loop.
PinMany(o) ==
    /\ ClientOp
    /\ o \in alive
    /\ o \notin DOMAIN mPinned
    /\ mPinned' = pinTimes(o, MaxUInt)
    /\ UNCHANGED <<alive, mMarked, children, mHeap, mRoots, pc, cycle,
                   calls, lastKept>>

\* Unpin without the assertion: a call on an object that is no key returns.
UnpinUnchecked(o) ==
    /\ ClientOp
    /\ IF o \in DOMAIN mPinned
       THEN /\ mPinned' = unpin(o)
            /\ unpins' = [unpins EXCEPT ![o] = @ + 1]
       ELSE UNCHANGED <<mPinned, unpins>>
    /\ pc' = pc
    /\ UNCHANGED <<alive, mMarked, children, mHeap, mRoots, cycle, pins,
                   lastKept>>

\* unpin(o): assert(it != mPinned.end()) ends the program when o is no key.
Unpin(o) ==
    /\ ClientOp
    /\ IF o \in DOMAIN mPinned
       THEN /\ mPinned' = unpin(o)
            /\ unpins' = [unpins EXCEPT ![o] = @ + 1]
            /\ pc' = pc
       ELSE /\ pc' = "aborted"
            /\ UNCHANGED <<mPinned, unpins>>
    /\ UNCHANGED <<alive, mMarked, children, mHeap, mRoots, cycle, pins,
                   lastKept>>

\* garbage_collector::GC.removeObject(o) called by client code.
RemoveObject(o) ==
    /\ ClientOp
    /\ o \in alive
    /\ mHeap' = removeObject(o)
    /\ UNCHANGED <<alive, mMarked, children, mRoots, mPinned, pc, cycle,
                   calls, lastKept>>

----------------------------------------------------------------------------
(* garbage_collector::collect and garbage_collector::sweep.                *)

\* An object reached through the markChildren hooks from one of S.
RECURSIVE Reachable(_)
Reachable(S) ==
    LET T == S \cup UNION {children[o] : o \in S} IN
    IF T = S THEN S ELSE Reachable(T)

\* collect() that clears every mark bit before it marks.
CollectBeginClearing ==
    /\ pc = "idle"
    /\ pc' = "markRoots"
    /\ it' = Begin(mRoots)
    /\ erase' = <<>>
    /\ pre' = [heap |-> mHeap, marked |-> {o \in Obj : mMarked[o]},
               alive |-> alive, children |-> children]
    /\ hooks' = NoHooks
    /\ mMarked' = [o \in Obj |-> FALSE]
    /\ UNCHANGED <<alive, children, collector, calls, lastKept, ops, quiet>>

\* collect() is entered: the root loop starts at mRoots.begin().
CollectBegin ==
    /\ pc = "idle"
    /\ pc' = "markRoots"
    /\ it' = Begin(mRoots)
    /\ erase' = <<>>
    /\ pre' = [heap |-> mHeap, marked |-> {o \in Obj : mMarked[o]},
               alive |-> alive, children |-> children]
    /\ hooks' = NoHooks
    /\ UNCHANGED <<ops, quiet>>
    /\ UNCHANGED <<alive, mMarked, children, collector, calls, lastKept>>

\* One iteration of "Mark root objects": (*it)->mark().
MarkRoot ==
    /\ pc = "markRoots"
    /\ it # End
    /\ LET m == mark(mMarked, it)
           h == hookRuns(mMarked, it)
       IN
         \/ /\ mMarked' = OfLive(m)
            /\ hooks' = [x \in Obj |-> hooks[x] + h[x]]
            /\ pc' = pc
            /\ it' = NextIt(mRoots, it)
         \/ /\ TouchesDead(m)
            /\ mMarked' = mMarked
            /\ hooks' = hooks
            /\ pc' = "crashed"
            /\ it' = it
    /\ UNCHANGED <<ops, quiet>>
    /\ UNCHANGED <<alive, children, collector, erase, pre, calls, lastKept>>

\* The root loop ends; the pinned loop starts at mPinned.begin().
MarkRootsDone ==
    /\ pc = "markRoots"
    /\ it = End
    /\ pc' = "markPinned"
    /\ it' = Begin(PinnedKeys)
    /\ UNCHANGED <<ops, quiet>>
    /\ UNCHANGED <<alive, mMarked, children, collector, erase, pre, hooks,
                   calls, lastKept>>

\* A pinned loop that walks over the keys and marks none.
MarkPinnedNone ==
    /\ pc = "markPinned"
    /\ it # End
    /\ it' = NextIt(PinnedKeys, it)
    /\ UNCHANGED <<alive, mMarked, children, collector, pc, erase, pre,
                   hooks, calls, lastKept, ops, quiet>>

\* One iteration of "Mark pinned objects": (*it).first->mark().
MarkPinned ==
    /\ pc = "markPinned"
    /\ it # End
    /\ LET m == mark(mMarked, it)
           h == hookRuns(mMarked, it)
       IN
         \/ /\ mMarked' = OfLive(m)
            /\ hooks' = [x \in Obj |-> hooks[x] + h[x]]
            /\ pc' = pc
            /\ it' = NextIt(PinnedKeys, it)
         \/ /\ TouchesDead(m)
            /\ mMarked' = mMarked
            /\ hooks' = hooks
            /\ pc' = "crashed"
            /\ it' = it
    /\ UNCHANGED <<ops, quiet>>
    /\ UNCHANGED <<alive, children, collector, erase, pre, calls, lastKept>>

\* The pinned loop ends; sweep() is called and starts at mHeap.begin().
SweepBegin ==
    /\ pc = "markPinned"
    /\ it = End
    /\ pc' = "scan"
    /\ it' = Begin(mHeap)
    /\ erase' = <<>>
    /\ UNCHANGED <<ops, quiet>>
    /\ UNCHANGED <<alive, mMarked, children, collector, pre, hooks, calls,
                   lastKept>>

\* Scan that keeps a marked object without clearing its mark bit.
ScanNoReset ==
    /\ pc = "scan"
    /\ it # End
    /\ \E read \in IF it \in alive THEN {mMarked[it]} ELSE BOOLEAN :
         IF read
         THEN erase' = erase
         ELSE erase' = Append(erase, it)
    /\ it' = NextIt(mHeap, it)
    /\ UNCHANGED <<alive, mMarked, children, collector, pc, pre, hooks,
                   calls, lastKept, ops, quiet>>

\* One iteration of sweep()'s first loop.  p->mMarked of an address that
\* holds no object any more reads whatever the freed memory holds.
Scan ==
    /\ pc = "scan"
    /\ it # End
    /\ \E read \in IF it \in alive THEN {mMarked[it]} ELSE BOOLEAN :
         IF read
         THEN /\ mMarked' = OfLive([mMarked EXCEPT ![it] = FALSE])
              /\ erase' = erase
         ELSE /\ erase' = Append(erase, it)
              /\ mMarked' = mMarked
    /\ it' = NextIt(mHeap, it)
    /\ UNCHANGED <<ops, quiet>>
    /\ UNCHANGED <<alive, children, collector, pc, pre, hooks, calls,
                   lastKept>>

\* The first loop ends; the second loop starts at erase.begin().
ScanDone ==
    /\ pc = "scan"
    /\ it = End
    /\ pc' = "erase"
    /\ UNCHANGED <<ops, quiet>>
    /\ UNCHANGED <<alive, mMarked, children, collector, cycle, calls,
                   lastKept>>

\* Erase that takes the entry out of the heap set and never deletes p.
EraseNoDelete ==
    /\ pc = "erase"
    /\ erase # <<>>
    /\ mHeap' = mHeap \ {Head(erase)}
    /\ erase' = Tail(erase)
    /\ UNCHANGED <<alive, mMarked, children, mRoots, mPinned, pc, it, pre,
                   hooks, calls, lastKept, ops, quiet>>

\* One iteration of sweep()'s second loop: mHeap.erase(*it); delete p.
\* delete of an address that holds no object is a double free: the
\* allocator ends the program or carries on.
Erase ==
    /\ pc = "erase"
    /\ erase # <<>>
    /\ LET p == Head(erase) IN
         /\ mHeap' = mHeap \ {p}
         /\ erase' = Tail(erase)
         /\ alive' = alive \ {p}
         /\ children' = [children EXCEPT ![p] = {}]
         /\ \/ pc' = pc
            \/ /\ p \notin alive
               /\ pc' = "crashed"
    /\ UNCHANGED <<ops, quiet>>
    /\ UNCHANGED <<mMarked, mRoots, mPinned, it, pre, hooks, calls,
                   lastKept>>

\* The second loop ends and sweep() returns into collect().
SweepDone ==
    /\ pc = "erase"
    /\ erase = <<>>
    /\ pc' = "return"
    /\ UNCHANGED <<ops, quiet>>
    /\ UNCHANGED <<alive, mMarked, children, collector, cycle, calls,
                   lastKept>>

\* collect() returns to the client.
CollectReturn ==
    /\ pc = "return"
    /\ pc' = "idle"
    /\ it' = End
    /\ erase' = <<>>
    /\ pre' = NoPre
    /\ lastKept' = {o \in mHeap \cap alive :
                      /\ o \in Reachable(mRoots)
                      /\ o \notin Reachable(PinnedKeys)
                      /\ o \notin pre.marked}
    /\ hooks' = NoHooks
    /\ ops' = ops
    /\ quiet' = TRUE
    /\ UNCHANGED <<alive, mMarked, children, collector, calls>>

----------------------------------------------------------------------------
Next ==
    \/ \E o \in Obj : Construct(o)
    \/ \E s, o \in Obj : CopyConstruct(s, o)
    \/ \E o \in Obj : Destroy(o)
    \/ \E p, c \in Obj : AddRef(p, c)
    \/ \E p, c \in Obj : DropRef(p, c)
    \/ \E o \in Obj : ClientMark(o)
    \/ \E o \in Obj : AddRoot(o)
    \/ \E o \in Obj : RemoveRoot(o)
    \/ \E o \in Obj : Pin(o)
    \/ \E o \in Obj : Unpin(o)
    \/ \E o \in Obj : RemoveObject(o)
    \/ CollectBegin
    \/ MarkRoot
    \/ MarkRootsDone
    \/ MarkPinned
    \/ SweepBegin
    \/ Scan
    \/ ScanDone
    \/ Erase
    \/ SweepDone
    \/ CollectReturn

Spec == Init /\ [][Next]_vars

\* Client code that never calls mark() itself and never deletes an object
\* itself: it constructs objects, links them, registers roots and pins, and
\* takes objects out of the heap set with removeObject.
NextManaged ==
    \/ \E o \in Obj : Construct(o)
    \/ \E s, o \in Obj : CopyConstruct(s, o)
    \/ \E p, c \in Obj : AddRef(p, c)
    \/ \E p, c \in Obj : DropRef(p, c)
    \/ \E o \in Obj : AddRoot(o)
    \/ \E o \in Obj : RemoveRoot(o)
    \/ \E o \in Obj : Pin(o)
    \/ \E o \in Obj : Unpin(o)
    \/ \E o \in Obj : RemoveObject(o)
    \/ CollectBegin
    \/ MarkRoot
    \/ MarkRootsDone
    \/ MarkPinned
    \/ SweepBegin
    \/ Scan
    \/ ScanDone
    \/ Erase
    \/ SweepDone
    \/ CollectReturn

SpecManaged == Init /\ [][NextManaged]_vars

\* Client code that also pins in long loops.
NextWide ==
    \/ Next
    \/ \E o \in Obj : PinMany(o)

SpecWide == Init /\ [][NextWide]_vars

\* collect() is one call on one thread: once entered it runs its loops to
\* the end, whatever the client would do next.
CollectStep ==
    \/ MarkRoot
    \/ MarkRootsDone
    \/ MarkPinned
    \/ SweepBegin
    \/ Scan
    \/ ScanDone
    \/ Erase
    \/ SweepDone
    \/ CollectReturn

SpecFair == SpecManaged /\ WF_vars(CollectStep)

----------------------------------------------------------------------------
(* Properties.  A cycle is judged in the state in which sweep() has        *)
(* returned and collect() is about to return (pc = "return"); pre holds    *)
(* what the cycle found on entry.  Roots, pins and references do not       *)
(* change while a cycle runs.                                              *)

AtReturn == pc = "return"

\* The objects the heap set held on entry of the cycle.
Managed == pre.heap \cap pre.alive

RECURSIVE ReachableIn(_, _)
ReachableIn(ch, S) ==
    LET T == S \cup UNION {ch[o] : o \in S} IN
    IF T = S THEN S ELSE ReachableIn(ch, T)

\* Roots, pinned keys and all that is reachable from them on entry.
PreReach == ReachableIn(pre.children, mRoots \cup PinnedKeys)

Survives(o) == o \in alive /\ o \in mHeap

Destroyed(o) == o \notin alive /\ o \notin mHeap

\* C1: after one collect() a heap object is still alive and in the heap if
\* and only if it is a root, a pinned key or reachable from one of them
\* through markChildren; every other heap object has been destroyed.
C1_ReachabilityClosure ==
    AtReturn =>
        \A o \in Managed :
            /\ Survives(o) <=> o \in PreReach
            /\ o \notin PreReach => Destroyed(o)

\* C2: in every collect() every heap object reachable through markChildren
\* from a root or a pinned key survives, also when that root or pinned
\* object is itself not in the heap set.
C2_ReachableSurvives ==
    AtReturn => \A o \in Managed : o \in PreReach => Survives(o)

\* C3: sweep never deallocates an object a second time, and after sweep the
\* heap set holds no entry of a destroyed object.
C3_DeallocatedOnce ==
    /\ pc = "erase" => \A i \in 1 .. Len(erase) : erase[i] \in alive
    /\ AtReturn => mHeap \subseteq alive

\* C4: a step that constructs an object adds it to the heap set with its
\* mark bit clear, and a step that destroys an object removes it from the
\* heap set, so the heap set is exactly the set of existing objects.
C4_HeapTracksObjects ==
    [][/\ \A o \in alive' \ alive : o \in mHeap' /\ ~mMarked'[o]
       /\ \A o \in alive \ alive' : o \notin mHeap'
       /\ (\A o \in Obj : ~RemoveObject(o)) /\ mHeap = alive
              => mHeap' = alive']_vars

C6_UnpinAbsentAborts ==
    [][/\ pc # "aborted"
       /\ \A o \in Obj :
            (o \notin PinnedKeys /\ Unpin(o)) =>
                /\ pc' = "aborted"
                /\ UNCHANGED <<mPinned, mRoots, mHeap, mMarked>>]_vars

\* The assertion of unpin has ended the program.
C6_Witness == pc = "aborted"

\* C7: after every collect() every object remaining in the heap set has
\* its mark bit clear.
C7_MarkBitReset == AtReturn => \A o \in mHeap : ~mMarked[o]

\* A cycle marked a root or pinned heap object and kept it.
C7_Witness ==
    /\ AtReturn
    /\ \E o \in Managed \cap (mRoots \cup PinnedKeys) : Survives(o)

\* C8: at the end of every collect() the mark bit is clear on every object
\* that exists, roots and pinned objects included (and so it is clear again
\* at the start of the next one).
C8_MarkCycleScoped == AtReturn => \A o \in alive : ~mMarked[o]

\* C9: right after a collect(), live() is the number of objects that are
\* roots, pinned or reachable from a root or pinned object.
C9_HeapAccounting == AtReturn => live = Cardinality(PreReach)

----------------------------------------------------------------------------
\* collect() is running.
Collecting == pc \in {"markRoots", "markPinned", "scan", "erase", "return"}

\* C11: collect() terminates on every object graph, cycles included: a
\* running collect() returns (or the program ends), the markChildren hook of
\* an object runs at most once in a cycle, and when A and B refer to each
\* other and A is the only root (nothing pinned), both are still there
\* after the cycle.
C11_CycleTerminates ==
    /\ [](\A o \in Obj : hooks[o] <= 1)
    /\ [](AtReturn =>
            \A a \in pre.alive : \A b \in Managed :
                ( /\ a # b
                  /\ pre.children[a] = {b}
                  /\ pre.children[b] = {a}
                  /\ mRoots = {a}
                  /\ PinnedKeys = {} )
                => (a \in alive /\ Survives(b)))
    /\ (Collecting ~> (pc = "idle" \/ pc = "crashed"))

----------------------------------------------------------------------------
(* The mark phase under another iteration order.  std::set and std::map    *)
(* iterate by address and a markChildren hook marks its members in the     *)
(* order its author wrote; r ranks the keys of the collector's sets and q  *)
(* ranks the children of an object.                                        *)

Orders == {r \in [Obj -> Obj] : \A x, y \in Obj : x # y => r[x] # r[y]}

FirstBy(r, S) == CHOOSE x \in S : \A y \in S : r[x] <= r[y]

\* Gc_object::mark with the hook visiting children[o] in the order q.
RECURSIVE markBy(_, _, _)
RECURSIVE markChildrenBy(_, _, _)
markBy(q, m, o) ==
    IF ~m[o]
    THEN markChildrenBy(q, [m EXCEPT ![o] = TRUE], pre.children[o])
    ELSE m

markChildrenBy(q, m, S) ==
    IF S = {} THEN m
    ELSE LET c == FirstBy(q, S) IN
         markChildrenBy(q, markBy(q, m, c), S \ {c})

\* A loop of collect() that stops at the first key it finds marked.
RECURSIVE markKeysUntilMarked(_, _, _, _)
markKeysUntilMarked(r, q, m, S) ==
    IF S = {} THEN m
    ELSE LET k == FirstBy(r, S) IN
         IF m[k] THEN m
         ELSE markKeysUntilMarked(r, q, markBy(q, m, k), S \ {k})

\* One loop of collect(): mark() on every key of S, in the order r.
RECURSIVE markKeysBy(_, _, _, _)
markKeysBy(r, q, m, S) ==
    IF S = {} THEN m
    ELSE LET k == FirstBy(r, S) IN
         markKeysBy(r, q, markBy(q, m, k), S \ {k})

\* The mark bits after both loops of collect(), from the bits on entry.
markPhaseBy(r, q) ==
    LET entry == [o \in Obj |-> o \in pre.marked] IN
    markKeysBy(r, q, markKeysBy(r, q, entry, mRoots), PinnedKeys)

\* Both loops of collect() have run and sweep() has not started.
MarkPhaseDone == pc = "markPinned" /\ it = End

\* C12: the mark phase does not depend on the order of iteration: whatever
\* order the roots, the pinned keys and the children of each object are
\* visited in, the objects marked when the mark phase ends are the ones the
\* program marked, and the objects sweep() destroys are the same.
C12_OrderIndependent ==
    /\ [](MarkPhaseDone =>
            \A r, q \in Orders : OfLive(markPhaseBy(r, q)) = mMarked)
    /\ [](AtReturn =>
            \A r, q \in Orders :
                pre.alive \ alive = {o \in Managed : ~markPhaseBy(r, q)[o]})

\* The mark phase of a cycle with two keys to visit, one of them with two
\* children, has ended.
C12_Witness ==
    /\ MarkPhaseDone
    /\ Cardinality(mRoots \cup PinnedKeys) >= 2
    /\ \E o \in mRoots \cup PinnedKeys : Cardinality(children[o]) >= 2

----------------------------------------------------------------------------
\* C13: addRoot and removeRoot are set operations on the root set alone:
\* addRoot(o) leaves the root set with o added, which is the same set when o
\* is a root already; removeRoot(o) leaves it with o taken out, which is the
\* same set when o is no root; both return normally and neither changes the
\* heap set, the pin table or a mark bit.
C13_RootOpsIdempotent ==
    [][\A o \in Obj :
         /\ AddRoot(o) =>
               /\ mRoots' = mRoots \cup {o}
               /\ o \in mRoots => mRoots' = mRoots
               /\ pc' = "idle"
               /\ UNCHANGED <<mHeap, mPinned, mMarked>>
         /\ RemoveRoot(o) =>
               /\ mRoots' = mRoots \ {o}
               /\ o \notin mRoots => mRoots' = mRoots
               /\ pc' = "idle"
               /\ UNCHANGED <<mHeap, mPinned, mMarked>>]_vars

\* Three client operations were made and one ran after the last cycle, which
\* kept object 1 through the root 1; the state is still the one that cycle
\* left.  Constructing object 1 and addRoot(1) are two of the three, and
\* the one after the cycle changed nothing: it was addRoot(1) on the root
\* 1 or removeRoot on an object that is no root.
C13_Witness ==
    /\ pc = "idle"
    /\ ops = 3
    /\ ~quiet
    /\ lastKept = {1}
    /\ alive = {1}
    /\ mHeap = {1}
    /\ mRoots = {1}
    /\ PinnedKeys = {}
    /\ children[1] = {}
    /\ \A o \in Obj : ~mMarked[o] /\ pins[o] = 0 /\ unpins[o] = 0

----------------------------------------------------------------------------
\* The mark bits that are set.
MarkedNow == {o \in Obj : mMarked[o]}

\* C14: a collect() called right after a collect() returned, with no client
\* operation between the two, destroys no object and leaves the heap set,
\* the root set, the pin table and every mark bit as the first one left
\* them.
C14_SecondCollectIdle ==
    /\ []((AtReturn /\ quiet) =>
            /\ alive = pre.alive
            /\ mHeap = pre.heap
            /\ MarkedNow = pre.marked)
    /\ [][(Collecting /\ quiet) => UNCHANGED <<mRoots, mPinned>>]_vars

----------------------------------------------------------------------------
\* C15: a heap object whose mark bit the client set by calling mark()
\* before a cycle, and that no root or pinned object reaches, survives that
\* cycle with its bit cleared; an unreachable heap object whose bit is
\* clear when a cycle starts (as it is in the cycle after, when nothing
\* marked it again) is destroyed by that cycle.
C15_DirectMarkOneCycle ==
    AtReturn =>
        \A o \in Managed \ PreReach :
            IF o \in pre.marked
            THEN Survives(o) /\ ~mMarked[o]
            ELSE Destroyed(o)

\* A cycle that started right after another one returned has destroyed a
\* heap object no root or pinned object reaches: the cycle before it found
\* the same roots, pins and references, so it kept the object only because
\* its mark bit was set.
C15_Witness ==
    /\ AtReturn
    /\ quiet
    /\ \E o \in Managed \ PreReach : Destroyed(o)

----------------------------------------------------------------------------
\* The order the program iterates in: by address.
ByAddress == [o \in Obj |-> o]

\* The mark bits the mark phase of the running cycle ends with.
AfterMark == markPhaseBy(ByAddress, ByAddress)

\* The entries sweep() has queued for erasing.
Queued == {erase[i] : i \in DOMAIN erase}

\* sweep()'s first loop has visited the whole heap set.
ScanEnd == pc = "scan" /\ it = End

\* C16: the phases of a cycle come in order.  sweep() starts when mark()
\* has been called on every root and every pinned key; while sweep() scans,
\* no entry leaves the heap set and no object is destroyed, and the second
\* loop starts only when the scan has reached the end of the heap set; the
\* scan visits each heap object once: when it ends a marked object has its
\* bit cleared and is not queued, an unmarked one is queued once; and when
\* sweep() has returned the marked ones are kept and the queued ones are
\* destroyed.
C16_PhaseOrder ==
    /\ [][ /\ (pc = "markPinned" /\ pc' = "scan") =>
                \A k \in mRoots \cup PinnedKeys : mMarked[k]
           /\ pc' = "scan" => (pc = "scan" \/ (pc = "markPinned" /\ it = End))
           /\ pc \in {"markRoots", "markPinned", "scan"} =>
                UNCHANGED <<mHeap, alive>>
           /\ pc' = "erase" => (pc = "erase" \/ ScanEnd) ]_vars
    /\ [](ScanEnd =>
            /\ \A i, j \in DOMAIN erase : erase[i] = erase[j] => i = j
            /\ Queued \subseteq mHeap
            /\ \A o \in Managed :
                  /\ o \in Queued <=> ~AfterMark[o]
                  /\ ~mMarked[o])
    /\ [](AtReturn =>
            \A o \in Managed :
                IF AfterMark[o]
                THEN Survives(o) /\ ~mMarked[o]
                ELSE Destroyed(o))

\* The scan of a cycle with a root and a pinned key has ended with an object
\* kept and an object queued.
C16_Witness ==
    /\ ScanEnd
    /\ mRoots # {}
    /\ PinnedKeys # {}
    /\ \E o \in Managed : AfterMark[o]
    /\ \E o \in Managed : o \in Queued

----------------------------------------------------------------------------
\* C17: in every reachable state the count of every entry of the pin table
\* is at least 1, however many pin() calls were made.
C17_CountsPositive == \A k \in PinnedKeys : mPinned[k] # UInt(0)

----------------------------------------------------------------------------
\* C18: collect() leaves the root set and the pin table as they are, and
\* when sweep() has returned no entry it erased from the heap set, and no
\* object it destroyed, is a root or a key of the pin table.
C18_CollectFrame ==
    /\ [][(Collecting \/ (pc = "idle" /\ pc' = "markRoots")) =>
             UNCHANGED <<mRoots, mPinned>>]_vars
    /\ [](AtReturn =>
            \A o \in (pre.heap \ mHeap) \cup (pre.alive \ alive) :
                o \notin mRoots \cup PinnedKeys)

\* sweep() has destroyed an object and kept a root and a pinned object that
\* are in the heap set.
C18_Witness ==
    /\ AtReturn
    /\ pre.alive \ alive # {}
    /\ \E o \in mRoots : Survives(o)
    /\ \E o \in PinnedKeys : Survives(o)

====
